---- MODULE Spec2Model ----
(***************************************************************************)
(* Model of image-processor/main.py: the interactive session loop of       *)
(* main() with its three stages download_image, process_image and          *)
(* save_output and the cache clean-up that ends a successful iteration.    *)
(*                                                                         *)
(* Text (input lines, URLs, generated text, documents) is a sequence of    *)
(* one-character strings; the fixed pieces of the provenance header are    *)
(* single tokens.  A directory is a function from file names to contents;  *)
(* a file name is the second-resolution clock reading it is derived from.  *)
(***************************************************************************)
EXTENDS Integers, Sequences, FiniteSets, TLC

\* ---------------------------------------------------------------- bounds
\* The wall clock, in seconds, runs from 0 to MaxTime.
MaxTime == 1
\* Number of input lines the operator can supply in one run.
MaxLines == 2
\* Longest chain of relaunched processes followed.
MaxDepth == 2

\* ------------------------------------------------------------- constants
NoFile == -1          \* Python's None for image_path / output_path
NoText == <<"<none>">>
NoStatus == -1        \* no process has exited yet

\* Lines the operator may type at the prompt (before .strip()).
Lines ==
    { <<"q">>, <<"Q">>, <<" ", "q", "u", "i", "t", "\t">>, <<"E", "x", "I", "T">>,
      <<>>, <<" ", "\t">>,
      <<"u">>, <<" ", "q", " ", "x", " ">> }

\* Texts the model can generate.
Texts == { <<"a">>, <<"a", "\n", "b">> }

\* os.linesep of the platform the process runs on.
LineSeps == { <<"\n">>, <<"\r", "\n">> }

\* ------------------------------------------------------------ pure text
IsSpace(c) == c \in {" ", "\t", "\n", "\r"}

RECURSIVE lstrip(_)
lstrip(s) == IF s # <<>> /\ IsSpace(Head(s)) THEN lstrip(Tail(s)) ELSE s

RECURSIVE rstrip(_)
rstrip(s) ==
    IF s # <<>> /\ IsSpace(s[Len(s)]) THEN rstrip(SubSeq(s, 1, Len(s) - 1)) ELSE s

\* (variant: the line is used as typed, without .strip())
stripNothing(s) == s

\* str.strip()
strip(s) == rstrip(lstrip(s))

LowerChar(c) ==
    CASE c = "Q" -> "q"
      [] c = "U" -> "u"
      [] c = "I" -> "i"
      [] c = "T" -> "t"
      [] c = "E" -> "e"
      [] c = "X" -> "x"
      [] OTHER -> c

\* str.lower()
lower(s) == [i \in DOMAIN s |-> LowerChar(s[i])]

\* the list ['q', 'quit', 'exit'] of main()
QuitWords == { <<"q">>, <<"q", "u", "i", "t">>, <<"e", "x", "i", "t">> }

\* ------------------------------------------------------------ directories
\* A directory listing with file f (over)written to hold data c:
\* open(path, "w") / image.save(path) create the file or replace its content.
Put(dir, f, c) == [n \in DOMAIN dir \cup {f} |-> IF n = f THEN c ELSE dir[n]]

\* os.remove of the files in D
Remove(dir, D) == [n \in DOMAIN dir \ D |-> dir[n]]

EmptyDir == [n \in {} |-> <<>>]

\* content of a file whose writer was cut short by a fault
Partial == <<"<partial>">>

\* ----------------------------------------------------------- save_output
\* Text-mode output (open(filepath, "w") without newline=): every "\n"
\* written is translated to os.linesep.
RECURSIVE Translate(_, _)
Translate(s, sep) ==
    IF s = <<>> THEN <<>>
    ELSE (IF Head(s) = "\n" THEN sep ELSE <<Head(s)>>) \o Translate(Tail(s), sep)

\* datetime.now().isoformat() of clock reading d
IsoFormat(d) == ToString(d)

\* the three f.write calls of save_output, before newline translation
FirstWrite(original_url) == <<"<!-- Source: ">> \o original_url \o <<" -->", "\n">>
SecondWrite(d) == <<"<!-- Date: ", IsoFormat(d), " -->", "\n", "\n">>

\* what save_output has put in the file after k of its three writes
Written(content, original_url, d, k, sep) ==
    Translate((IF k >= 1 THEN FirstWrite(original_url) ELSE <<>>)
              \o (IF k >= 2 THEN SecondWrite(d) ELSE <<>>)
              \o (IF k >= 3 THEN content ELSE <<>>), sep)

\* (variant: save_output called with its two arguments exchanged)
DocumentSwapped(content, original_url, d, sep) == Written(original_url, content, d, 3, sep)

\* the document save_output leaves on disk when it returns
Document(content, original_url, d, sep) == Written(content, original_url, d, 3, sep)

\* ------------------------------------------------------------------ state
VARIABLES
    pc,                \* position of main(): the session-loop state
    now,               \* wall clock, seconds
    linesep,           \* os.linesep of the platform
    nread,             \* lines the operator has typed so far
    user_input,        \* main's user_input
    image_path,        \* main's image_path
    markdown_content,  \* main's markdown_content
    output_path,       \* main's output_path
    cache,             \* files of CACHE_DIR: name -> content
    output,            \* files of OUTPUT_DIR: name -> content
    msg,               \* last message printed: [text, n]
    invoked,           \* history: stages called since the last line was read
    event,             \* history: what the last step was given: [type, exc, at]
    typed,             \* history: the line input() returned last, unstripped
    undeleted,         \* history: files whose os.remove failed in the last sweep
    lastOutcome,       \* history: how the last iteration ended
    complete,          \* history: names of documents a save_output completed
    depth,             \* processes waiting in subprocess.run for the running one
    cuda,              \* torch.cuda.is_available() of the running process
    venv,              \* what is known of .venv/Scripts/python.exe
    loaded,            \* load_model has returned in the running process
    status,            \* exit status of the process that ended last
    fault              \* history: the startup fault that ended a process last

vars == <<pc, now, linesep, nread, user_input, image_path, markdown_content,
          output_path, cache, output, msg, invoked, event, typed, undeleted,
          lastOutcome, complete, depth, cuda, venv, loaded, status, fault>>

startup == <<depth, cuda, venv, loaded, status, fault>>

locals == <<user_input, image_path, markdown_content, output_path>>

Say(text, n) == [text |-> text, n |-> n]

\* what a step was given: a line, a call that returned, an exception raised
\* at some point of a stage, or a tick of the clock
Ev(type, exc, at) == [type |-> type, exc |-> exc, at |-> at]

\* State when the prompt is first shown: setup_directories has run, the model
\* is loaded, no local of the loop is bound yet.
Init ==
    /\ pc = "AwaitingInput"
    /\ now = 0
    /\ linesep \in LineSeps
    /\ nread = 0
    /\ user_input = NoText
    /\ image_path = NoFile
    /\ markdown_content = NoText
    /\ output_path = NoFile
    /\ cache = EmptyDir
    /\ output = EmptyDir
    /\ msg = Say("Ready", 0)
    /\ invoked = {}
    /\ event = Ev("start", "none", "none")
    /\ typed = NoText
    /\ undeleted = {}
    /\ lastOutcome = "none"
    /\ complete = {}
    /\ depth = 0
    /\ cuda = "yes"
    /\ venv = "unknown"
    /\ loaded = TRUE
    /\ status = NoStatus
    /\ fault = "none"

\* ------------------------------------------------------ exception handling
\* The two handlers of the loop's try statement: KeyboardInterrupt prints
\* "Exiting..." and breaks; any other Exception is printed and the while
\* loop goes round again.  `what` names the iteration's outcome on a fault.
\* (variant: a loop without `except Exception`, where a fault ends the process)
MainCatchFatal(exc, what) ==
    /\ pc' = "Exiting"
    /\ msg' = Say(IF exc = "KeyboardInterrupt" THEN "Exiting..." ELSE "Traceback", 0)
    /\ lastOutcome' = IF exc = "KeyboardInterrupt" THEN "interrupted" ELSE what

MainCatch(exc, what) ==
    IF exc = "KeyboardInterrupt"
    THEN /\ pc' = "Exiting"
         /\ msg' = Say("Exiting...", 0)
         /\ lastOutcome' = "interrupted"
    ELSE /\ pc' = "AwaitingInput"
         /\ msg' = Say("An unexpected error occurred", 0)
         /\ lastOutcome' = what

Raised == {"Exception", "KeyboardInterrupt"}

\* (variant: a bare `except:` in download_image)
DownloadCatchesAll(exc) == TRUE

\* `except Exception` of download_image
DownloadCatches(exc) == exc = "Exception"

\* `except Exception` of the clean-up block
CleanupCatches(exc) == exc = "Exception"

\* -------------------------------------------------------- AwaitingInput
\* (variant: the quit test without .lower())
IsQuitCaseSensitive(s) == s \in QuitWords

\* user_input.lower() in ['q', 'quit', 'exit']
IsQuit(s) == lower(s) \in QuitWords

\* input() returns a line: strip, quit test, empty test
ReadLine(line) ==
    /\ pc = "AwaitingInput"
    /\ nread < MaxLines
    /\ nread' = nread + 1
    /\ typed' = line
    /\ event' = Ev("line", "none", "input")
    /\ user_input' = strip(line)
    /\ invoked' = {}
    /\ IF IsQuit(user_input')
       THEN /\ pc' = "Exiting"
            /\ msg' = Say("Exiting...", 0)
            /\ lastOutcome' = "quit"
       ELSE IF user_input' = <<>>
       THEN /\ pc' = "AwaitingInput"
            /\ lastOutcome' = "empty"
            /\ UNCHANGED msg
       ELSE /\ pc' = "Fetching"
            /\ msg' = Say("Downloading image...", 0)
            /\ UNCHANGED lastOutcome
    /\ UNCHANGED <<now, linesep, startup, image_path, markdown_content, output_path,
                   cache, output, undeleted, complete>>

\* (variant: a loop that treats end of input as a request to quit)
ReadRaiseEofBreaks(exc) ==
    /\ pc = "AwaitingInput"
    /\ invoked' = {}
    /\ event' = Ev("raise", exc, "input")
    /\ pc' = "Exiting"
    /\ msg' = Say("Exiting...", 0)
    /\ lastOutcome' = IF exc = "KeyboardInterrupt" THEN "interrupted" ELSE "eof"
    /\ UNCHANGED <<now, linesep, startup, nread, locals, cache, output, typed, undeleted, complete>>

\* input() raises: EOFError at end of input, KeyboardInterrupt on Ctrl-C
ReadRaise(exc) ==
    /\ pc = "AwaitingInput"
    /\ invoked' = {}
    /\ event' = Ev("raise", exc, "input")
    /\ MainCatch(exc, "eof")
    /\ UNCHANGED <<now, linesep, startup, nread, locals, cache, output, typed, undeleted, complete>>

\* -------------------------------------------------------------- Fetching
\* where download_image can raise: requests.get, raise_for_status,
\* Image.open / convert, image.save
FetchFaults == {"network", "status", "decode", "save"}

\* CACHE_DIR once image.save(filepath) has been cut short by exc.  Either
\* the file was not opened yet, or it was opened and not completed: a file
\* that was already there is left truncated; a file that save created is
\* removed again by save when an Exception ends it, and stays, incomplete,
\* when an interrupt does.
SaveCutShort(dir, f, exc) ==
    IF f \in DOMAIN dir \/ exc = "KeyboardInterrupt"
    THEN {dir, Put(dir, f, Partial)}
    ELSE {dir}

\* (variant: the response body is written to the file before it is decoded)
CacheAtFaultEarlyWrite(exc, kind) ==
    IF kind \in {"decode", "save"} THEN {Put(cache, now, Partial)} ELSE {cache}

\* CACHE_DIR when download_image raises at `kind`: only image.save writes.
CacheAtFault(exc, kind) ==
    IF kind = "save" THEN SaveCutShort(cache, now, exc) ELSE {cache}

\* (variant: main without the test of download_image's result)
SkipsIterationNever(path) == FALSE

\* `if not image_path: continue`
SkipsIteration(path) == path = NoFile

\* main's step after download_image has returned `path`
AfterDownload(path, outcome) ==
    /\ image_path' = path
    /\ IF SkipsIteration(path)
       THEN /\ pc' = "AwaitingInput"
            /\ msg' = Say("Error downloading image", 0)
            /\ lastOutcome' = outcome
       ELSE /\ pc' = "Inferring"
            /\ msg' = Say("Processing image", 0)
            /\ lastOutcome' = lastOutcome

\* download_image runs to `return filepath, image`: the file is named by the
\* second-resolution timestamp and holds the converted image of the URL.
FetchOk ==
    /\ pc = "Fetching"
    /\ invoked' = invoked \cup {"fetch"}
    /\ event' = Ev("return", "none", "fetch")
    /\ cache' = Put(cache, now, user_input)
    /\ AfterDownload(now, "none")
    /\ UNCHANGED <<now, linesep, startup, nread, user_input, markdown_content,
                   output_path, output, typed, undeleted, complete>>

\* something raises inside download_image's try: an Exception is caught
\* there and (None, None) returned, anything else reaches main's handlers.
FetchRaise(exc, kind) ==
    /\ pc = "Fetching"
    /\ invoked' = invoked \cup {"fetch"}
    /\ event' = Ev("raise", exc, kind)
    /\ cache' \in CacheAtFault(exc, kind)
    /\ IF DownloadCatches(exc)
       THEN AfterDownload(NoFile, kind)
       ELSE /\ MainCatch(exc, kind)
            /\ image_path' = image_path
    /\ UNCHANGED <<now, linesep, startup, nread, user_input, markdown_content,
                   output_path, output, typed, undeleted, complete>>

\* ------------------------------------------------------------- Inferring
\* process_image returns the generated text
InferOk(text) ==
    /\ pc = "Inferring"
    /\ invoked' = invoked \cup {"infer"}
    /\ event' = Ev("return", "none", "infer")
    /\ markdown_content' = text
    /\ pc' = "Writing"
    /\ UNCHANGED <<now, linesep, startup, nread, user_input, image_path, output_path,
                   cache, output, msg, typed, undeleted, lastOutcome, complete>>

\* process_image raises: nothing in main stands between the call and the
\* handlers of the loop's try statement
InferRaise(exc) ==
    /\ pc = "Inferring"
    /\ invoked' = invoked \cup {"infer"}
    /\ event' = Ev("raise", exc, "infer")
    /\ MainCatch(exc, "inference_fault")
    /\ UNCHANGED <<now, linesep, startup, nread, locals, cache, output, typed, undeleted, complete>>

\* --------------------------------------------------------------- Writing
\* the clock readings datetime.now() can give after reading t
Later(t) == {d \in t..(t + 1) : d <= MaxTime}

\* save_output returns: the file named by the timestamp holds the document
WriteOk(d) ==
    /\ pc = "Writing"
    /\ d \in Later(now)
    /\ invoked' = invoked \cup {"write"}
    /\ output' = Put(output, now, Document(markdown_content, user_input, d, linesep))
    /\ output_path' = now
    /\ complete' = complete \cup {now}
    /\ now' = d
    /\ pc' = "Cleanup"
    /\ msg' = Say("Success", 0)
    /\ event' = Ev("return", "none", "write")
    /\ UNCHANGED <<linesep, startup, nread, user_input, image_path, markdown_content,
                   cache, typed, undeleted, lastOutcome>>

\* save_output raises: at open (k = -1, nothing written), or after open has
\* created or truncated the file and k of the three writes were done
WriteRaise(exc, k) ==
    /\ pc = "Writing"
    /\ k \in -1..2
    /\ invoked' = invoked \cup {"write"}
    /\ output' = IF k = -1 THEN output
                 ELSE Put(output, now, Written(markdown_content, user_input, now, k, linesep))
    /\ event' = Ev("raise", exc, "write")
    /\ MainCatch(exc, "write_fault")
    /\ UNCHANGED <<now, linesep, startup, nread, locals, cache, typed, undeleted, complete>>

\* --------------------------------------------------------------- Cleanup
\* the sets a nondeterministic choice of failing deletions ranges over
Subsets(S) == SUBSET S

\* (variant: a clean-up that removes image_path only, without the sweep)
CleanupOkNoSweep(F) ==
    /\ pc = "Cleanup"
    /\ F = {}
    /\ cache' = Remove(cache, {image_path})
    /\ undeleted' = {}
    /\ msg' = Say("Cache cleared: basename", image_path)
    /\ event' = Ev("return", "none", "cleanup")
    /\ pc' = "AwaitingInput"
    /\ lastOutcome' = "success"
    /\ UNCHANGED <<now, linesep, startup, nread, locals, output, invoked, typed, complete>>

\* (variant: a sweep that lists and empties OUTPUT_DIR as well)
CleanupOkSweepsOutput(F) ==
    /\ pc = "Cleanup"
    /\ F = {}
    /\ cache' = EmptyDir
    /\ output' = EmptyDir
    /\ undeleted' = {}
    /\ msg' = Say("Cache cleared: files removed",
                  Cardinality(DOMAIN cache) + Cardinality(DOMAIN output))
    /\ event' = Ev("return", "none", "cleanup")
    /\ pc' = "AwaitingInput"
    /\ lastOutcome' = "success"
    /\ UNCHANGED <<now, linesep, startup, nread, locals, invoked, typed, complete>>

\* The clean-up block runs to its end.  os.remove(image_path) succeeds (or is
\* skipped because the file is gone); the listing that follows holds every
\* file left; each is removed, and F are the files whose os.remove raises and
\* is passed over.  The count printed is len(cache_files) + 1.
CleanupOk(F) ==
    /\ pc = "Cleanup"
    /\ LET swept == Remove(cache, {image_path})
           cache_files == DOMAIN swept
       IN /\ F \in Subsets(cache_files)
          /\ cache' = Remove(swept, cache_files \ F)
          /\ undeleted' = F
          /\ msg' = IF cache_files # {}
                    THEN Say("Cache cleared: files removed", Cardinality(cache_files) + 1)
                    ELSE Say("Cache cleared: basename", image_path)
    /\ event' = Ev("return", "none", "cleanup")
    /\ pc' = "AwaitingInput"
    /\ lastOutcome' = "success"
    /\ UNCHANGED <<now, linesep, startup, nread, locals, output, invoked, typed, complete>>

\* The clean-up block is left by an exception when the files D are gone
\* already: os.remove(image_path) raises (D is empty), or an interrupt
\* arrives between two deletions (image_path is the first to go).  An
\* Exception is caught by the block's own handler and printed as a warning.
CleanupRaise(exc, D) ==
    /\ pc = "Cleanup"
    /\ D \in Subsets(DOMAIN cache)
    /\ IF exc = "Exception"
       THEN D = {} /\ image_path \in DOMAIN cache
       ELSE D = {} \/ image_path \in D \/ image_path \notin DOMAIN cache
    /\ cache' = Remove(cache, D)
    /\ event' = Ev("raise", exc, "cleanup")
    /\ IF CleanupCatches(exc)
       THEN /\ pc' = "AwaitingInput"
            /\ msg' = Say("Warning: Could not delete cached image", 0)
            /\ lastOutcome' = "success"
       ELSE MainCatch(exc, "cleanup_fault")
    /\ UNCHANGED <<now, linesep, startup, nread, locals, output, invoked, typed, undeleted, complete>>

\* ----------------------------------------------------------------- clock
\* a second passes while the loop is running
Tick ==
    /\ pc # "Exiting"
    /\ now < MaxTime
    /\ now' = now + 1
    /\ event' = Ev("tick", "none", "none")
    /\ UNCHANGED <<pc, linesep, startup, nread, locals, cache, output, msg, invoked, typed,
                   undeleted, lastOutcome, complete>>

Next ==
    \/ \E line \in Lines : ReadLine(line)
    \/ \E exc \in Raised : ReadRaise(exc)
    \/ FetchOk
    \/ \E exc \in Raised, kind \in FetchFaults : FetchRaise(exc, kind)
    \/ \E text \in Texts : InferOk(text)
    \/ \E exc \in Raised : InferRaise(exc)
    \/ \E d \in 0..MaxTime : WriteOk(d)
    \/ \E exc \in Raised, k \in -1..2 : WriteRaise(exc, k)
    \/ \E F \in Subsets(0..MaxTime) : CleanupOk(F)
    \/ \E exc \in Raised, D \in Subsets(0..MaxTime) : CleanupRaise(exc, D)
    \/ Tick

Spec == Init /\ [][Next]_vars

\* ---------------------------------------------------------------- startup
\* what the startup steps leave alone: the loop's locals, the directories
\* and the history of the session
session == <<now, linesep, nread, locals, cache, output, invoked, event, typed,
             undeleted, lastOutcome, complete>>

\* The process main() is started in: nothing is known of the environment.
StartInit ==
    /\ pc = "Start"
    /\ now = 0
    /\ linesep \in LineSeps
    /\ nread = 0
    /\ user_input = NoText
    /\ image_path = NoFile
    /\ markdown_content = NoText
    /\ output_path = NoFile
    /\ cache = EmptyDir
    /\ output = EmptyDir
    /\ msg = Say("Launched", 0)
    /\ invoked = {}
    /\ event = Ev("start", "none", "none")
    /\ typed = NoText
    /\ undeleted = {}
    /\ lastOutcome = "none"
    /\ complete = {}
    /\ depth = 0
    /\ cuda = "unknown"
    /\ venv = "unknown"
    /\ loaded = FALSE
    /\ status = NoStatus
    /\ fault = "none"

\* The running process ends with exit status st.  If it was relaunched, the
\* process that waits for it in subprocess.run goes on, at line 39; that
\* process had found no CUDA and has loaded nothing.
EndProcess(st) ==
    /\ status' = st
    /\ IF depth = 0
       THEN /\ pc' = "Exited"
            /\ UNCHANGED <<depth, cuda, loaded>>
       ELSE /\ pc' = "Returned"
            /\ depth' = depth - 1
            /\ cuda' = "no"
            /\ loaded' = FALSE

\* A relaunched process is run by the interpreter of the virtual environment,
\* so the first of them settles whether that interpreter has CUDA.
MayHaveCuda == depth = 0 \/ venv # "nocuda"

\* torch.cuda.is_available() is true: check_cuda_and_restart returns and
\* setup_directories makes sure both directories exist.
CudaPresent ==
    /\ pc = "Start"
    /\ MayHaveCuda
    /\ cuda' = "yes"
    /\ venv' = IF depth = 0 THEN venv ELSE "cuda"
    /\ pc' = "Loading"
    /\ msg' = Say("Loading model", 0)
    /\ UNCHANGED <<session, depth, loaded, status, fault>>

\* No CUDA and no .venv/Scripts/python.exe: instructions, then sys.exit(1).
\* Only the process the operator started can find the file missing.
CudaAbsentNoVenv ==
    /\ pc = "Start"
    /\ depth = 0
    /\ venv' = "missing"
    /\ msg' = Say("ERROR: Virtual environment not found", 0)
    /\ fault' = "environment"
    /\ EndProcess(1)
    /\ UNCHANGED session

\* No CUDA, the interpreter of the virtual environment exists:
\* subprocess.run starts the script again and waits for it.
CudaAbsentRelaunch ==
    /\ pc = "Start"
    /\ depth < MaxDepth
    /\ venv' = IF depth = 0 THEN "exists" ELSE "nocuda"
    /\ depth' = depth + 1
    /\ cuda' = "unknown"
    /\ pc' = "Start"
    /\ msg' = Say("Restarting with CUDA-enabled Python", 0)
    /\ UNCHANGED <<session, loaded, status, fault>>

\* No CUDA, the file exists, and subprocess.run raises (the interpreter
\* cannot be started): nothing catches the OSError and the process ends with
\* a traceback.
CudaAbsentSpawnFails ==
    /\ pc = "Start"
    /\ venv' = IF depth = 0 THEN "exists" ELSE "nocuda"
    /\ msg' = Say("Traceback", 0)
    /\ fault' = "environment"
    /\ EndProcess(1)
    /\ UNCHANGED session

\* subprocess.run has returned; its result is dropped and sys.exit(0) called.
ParentExits ==
    /\ pc = "Returned"
    /\ EndProcess(0)
    /\ UNCHANGED <<session, msg, venv, fault>>

\* load_model returns the model and the processor; main prints the banner.
LoadOk ==
    /\ pc = "Loading"
    /\ loaded' = TRUE
    /\ pc' = "AwaitingInput"
    /\ msg' = Say("Ready", 0)
    /\ UNCHANGED <<session, depth, cuda, venv, status, fault>>

\* (variant: a load_model that prints the error and returns)
LoadRaiseContinues(exc) ==
    /\ pc = "Loading"
    /\ pc' = "AwaitingInput"
    /\ msg' = Say("Error loading model", 0)
    /\ fault' = IF exc = "Exception" THEN "model_load" ELSE "interrupt"
    /\ UNCHANGED <<session, depth, cuda, venv, loaded, status>>

\* load_model raises: an Exception is printed with the hint and exit(1)
\* called; an interrupt is not caught and ends the process with a traceback.
LoadRaise(exc) ==
    /\ pc = "Loading"
    /\ msg' = Say(IF exc = "Exception" THEN "Error loading model" ELSE "Traceback", 0)
    /\ fault' = IF exc = "Exception" THEN "model_load" ELSE "interrupt"
    /\ EndProcess(1)
    /\ UNCHANGED <<session, venv>>

\* the loop was left by break: main returns and the process ends normally
MainReturns ==
    /\ pc = "Exiting"
    /\ EndProcess(0)
    /\ UNCHANGED <<session, msg, venv, fault>>

StartNext ==
    \/ CudaPresent
    \/ CudaAbsentNoVenv
    \/ CudaAbsentRelaunch
    \/ CudaAbsentSpawnFails
    \/ ParentExits
    \/ LoadOk
    \/ \E exc \in Raised : LoadRaise(exc)
    \/ MainReturns
    \/ Next

\* the process from its start: startup, then the session loop
StartSpec == StartInit /\ [][StartNext]_vars

\* ================================================================= claims
\* outcomes with which an iteration that went past AwaitingInput ends
IterationEnds == FetchFaults \cup {"inference_fault", "write_fault", "success"}

\* the step is a fault (an Exception, not an interrupt) raised at `at`
FaultAt(at) == event'.type = "raise" /\ event'.exc = "Exception" /\ event'.at \in at

\* the step is an operator interrupt
Interrupt == event'.type = "raise" /\ event'.exc = "KeyboardInterrupt"

\* the lines of Lines that are q, quit or exit once trimmed and case-folded
QuitLines == { <<"q">>, <<"Q">>, <<" ", "q", "u", "i", "t", "\t">>, <<"E", "x", "I", "T">> }

\* the messages that report a fault
Reports == {"Error downloading image", "An unexpected error occurred",
            "Warning: Could not delete cached image"}

\* C1: whenever the prompt is shown after an iteration that left
\* AwaitingInput (fetch failure, inference fault, write fault or success),
\* the scratch directory holds no file.
C1_ScratchEmptyAtPrompt ==
    (pc = "AwaitingInput" /\ lastOutcome \in IterationEnds) => DOMAIN cache = {}

\* C2: a fault of the Inference Adapter is reported and the loop does not go
\* from Inferring to AwaitingInput with the downloaded image still on disk.
C2_InferenceFaultCleansUp ==
    [][(pc = "Inferring" /\ FaultAt({"infer"}))
         => /\ msg'.text \in Reports
            /\ ~(pc' = "AwaitingInput" /\ image_path \in DOMAIN cache')]_vars

\* C3: at the boundary between iterations at most one cached image file
\* exists in the scratch directory.
C3_AtMostOneCachedImage ==
    pc = "AwaitingInput" => Cardinality(DOMAIN cache) <= 1

\* C4: the Output Writer never overwrites: a document written by a successful
\* iteration stays in the output directory with its content, and a successful
\* save_output does not reuse the name of such a document.
C4_NeverOverwrites ==
    [][/\ \A n \in complete : n \in DOMAIN output' /\ output'[n] = output[n]
       /\ (pc = "Writing" /\ pc' = "Cleanup") => output_path' \notin complete]_vars

\* a deletion of the sweep failed in this step's clean-up
SweepFault == event' = Ev("return", "none", "cleanup") /\ undeleted' # {}

\* the process ends only on a quit keyword typed at the prompt or an interrupt
ExitOnlyOnRequest ==
    (pc # "Exiting" /\ pc' = "Exiting")
        => \/ Interrupt
           \/ pc = "AwaitingInput" /\ event'.type = "line" /\ typed' \in QuitLines

C6_QuitKeywordExits ==
    [][(pc = "AwaitingInput" /\ event'.type = "line" /\ typed' \in QuitLines)
         => /\ pc' = "Exiting"
            /\ invoked' = {}
            /\ cache' = cache
            /\ output' = output]_vars

C6_Witness ==
    pc = "Exiting" /\ event.type = "line" /\ typed = <<"E", "x", "I", "T">> /\ invoked = {}

\* C7: when the Image Fetcher fails on a network error, a non-2xx status or
\* an undecodable body, it returns the empty result and the scratch
\* directory has the same files with the same contents as before the call.
C7_FetchFailureLeavesScratch ==
    [][(pc = "Fetching" /\ FaultAt({"network", "status", "decode"}))
         => (image_path' = NoFile /\ cache' = cache)]_vars

C7_Witness ==
    /\ pc = "AwaitingInput"
    /\ event = Ev("raise", "Exception", "decode")
    /\ image_path = NoFile
    /\ DOMAIN cache # {}

\* C8: when the Image Fetcher returns the empty result the loop goes from
\* Fetching back to AwaitingInput; neither the Inference Adapter nor the
\* Output Writer was invoked in the iteration and the output directory is
\* unchanged.
C8_EmptyFetchSkipsIteration ==
    [][(pc = "Fetching" /\ FaultAt(FetchFaults))
         => /\ pc' = "AwaitingInput"
            /\ invoked' \cap {"infer", "write"} = {}
            /\ output' = output]_vars

C8_Witness ==
    /\ pc = "AwaitingInput"
    /\ event = Ev("raise", "Exception", "network")
    /\ invoked = {"fetch"}
    /\ DOMAIN output # {}

\* C9: an operator interrupt in any loop state makes Exiting the next state,
\* and once Exiting nothing more happens: no stage runs, no prompt is shown.
C9_InterruptExits ==
    [][pc # "Exiting" /\ (Interrupt => pc' = "Exiting")]_vars

C9_Witness ==
    /\ pc = "Exiting"
    /\ event.type = "raise" /\ event.exc = "KeyboardInterrupt"
    /\ event.at \in {"network", "status", "decode"}
    /\ invoked = {"fetch"}

\* the provenance header of a document for `url` stamped d, lines ended by eol
Header(url, d, eol) ==
    <<"<!-- Source: ">> \o url \o <<" -->">> \o eol
    \o <<"<!-- Date: ", IsoFormat(d), " -->">> \o eol \o eol

\* C10: the document the Output Writer produced is the source-URL comment
\* line, the timestamp comment line, a blank line, and then exactly the
\* generated text.
C10_DocumentLayout ==
    (pc = "Cleanup" /\ event = Ev("return", "none", "write"))
        => \E eol \in LineSeps, d \in 0..MaxTime :
               output[output_path] = Header(user_input, d, eol) \o markdown_content

\* the step is a call of a stage that returned normally
Returned(stage) == event' = Ev("return", "none", stage)

\* C13: a successful call of the Image Fetcher adds exactly one new file to
\* the scratch directory and leaves every file already there as it was.
C13_FetchAddsOneFile ==
    [][(pc = "Fetching" /\ Returned("fetch"))
         => /\ Cardinality(DOMAIN cache') = Cardinality(DOMAIN cache) + 1
            /\ \A n \in DOMAIN cache : n \in DOMAIN cache' /\ cache'[n] = cache[n]]_vars

\* the lines of Lines that are empty once trimmed
BlankLines == { <<>>, <<" ", "\t">> }

\* C14: a line that is empty after trimming re-enters AwaitingInput; no
\* stage is invoked and both directories are unchanged.
C14_EmptyLineReprompts ==
    [][(pc = "AwaitingInput" /\ event'.type = "line" /\ typed' \in BlankLines)
         => /\ pc' = "AwaitingInput"
            /\ invoked' = {}
            /\ cache' = cache
            /\ output' = output]_vars

C14_Witness ==
    /\ pc = "AwaitingInput"
    /\ event.type = "line"
    /\ typed = <<" ", "\t">>
    /\ invoked = {}
    /\ DOMAIN cache # {}

\* the input line of the iteration, as the stages receive it
TrimmedInput ==
    CASE typed = <<"u">> -> <<"u">>
      [] typed = <<" ", "q", " ", "x", " ">> -> <<"q", " ", "x">>
      [] OTHER -> <<>>

\* C15: the stages of an iteration run in the order Fetching, Inferring,
\* Writing, Cleanup, each entered only when the one before returned normally;
\* the document written is made of the iteration's input line and of the text
\* its inference returned; a line is read only in AwaitingInput.
C15_StageOrder ==
    [][/\ (pc' = "Fetching" /\ pc # "Fetching")
          => (pc = "AwaitingInput" /\ event'.type = "line")
       /\ (pc' = "Inferring" /\ pc # "Inferring")
          => (pc = "Fetching" /\ Returned("fetch"))
       /\ (pc' = "Writing" /\ pc # "Writing")
          => (pc = "Inferring" /\ Returned("infer") /\ invoked' = {"fetch", "infer"})
       /\ (pc' = "Cleanup" /\ pc # "Cleanup")
          => /\ pc = "Writing" /\ Returned("write")
             /\ invoked' = {"fetch", "infer", "write"}
             /\ \E d \in 0..MaxTime, eol \in LineSeps :
                    output'[output_path'] =
                        Translate(Header(TrimmedInput, d, <<"\n">>) \o markdown_content, eol)
       /\ event'.type = "line" => pc = "AwaitingInput"]_vars

C15_Witness ==
    /\ pc = "Cleanup"
    /\ event = Ev("return", "none", "write")
    /\ typed = <<" ", "q", " ", "x", " ">>
    /\ markdown_content = <<"a", "\n", "b">>
    /\ nread = 2

\* C16: when Cleanup runs to its end and no deletion fails, the scratch
\* directory holds no file, however many it held before.
C16_CleanupEmptiesScratch ==
    [][(pc = "Cleanup" /\ Returned("cleanup") /\ undeleted' = {})
         => DOMAIN cache' = {}]_vars

C16_Witness ==
    /\ pc = "AwaitingInput"
    /\ event = Ev("return", "none", "cleanup")
    /\ undeleted = {}
    /\ msg = Say("Cache cleared: files removed", 2)
    /\ DOMAIN cache = {}

\* C17: the count Cleanup reports is the number of files that left the
\* scratch directory during that Cleanup.
C17_ReportedCountIsDeleted ==
    [][(pc = "Cleanup" /\ Returned("cleanup") /\ msg'.text = "Cache cleared: files removed")
         => msg'.n = Cardinality(DOMAIN cache) - Cardinality(DOMAIN cache')]_vars

\* C18: the output directory changes only in a step of the Writing stage,
\* and no step removes a document from it.
C18_OnlyWritingChangesOutput ==
    [][/\ output' # output => (pc = "Writing" /\ event'.at = "write")
       /\ DOMAIN output \subseteq DOMAIN output']_vars

C18_Witness ==
    /\ pc = "AwaitingInput"
    /\ event = Ev("return", "none", "cleanup")
    /\ msg.text = "Cache cleared: files removed"
    /\ nread = 2
    /\ output_path \in DOMAIN output

\* C20: end of input at the prompt is reported like any fault and the loop
\* stays in AwaitingInput; a step that reaches Exiting without a line having
\* been typed is an operator interrupt.
C20_EndOfInputReprompts ==
    [][/\ (pc = "AwaitingInput" /\ FaultAt({"input"}))
          => (pc' = "AwaitingInput" /\ msg'.text = "An unexpected error occurred")
       /\ (pc # "Exiting" /\ pc' = "Exiting" /\ event'.type # "line") => Interrupt]_vars

C20_Witness ==
    /\ pc = "AwaitingInput"
    /\ event = Ev("raise", "Exception", "input")
    /\ msg.text = "An unexpected error occurred"
    /\ nread = MaxLines

\* the session-loop states
LoopStates == {"AwaitingInput", "Fetching", "Inferring", "Writing", "Cleanup", "Exiting"}

\* C11: without CUDA and without the alternate environment the process exits
\* with a non-zero status, the model not loaded and the loop not entered; a
\* run ended by an environment fault never has exit status zero.
C11_EnvironmentFaultExitsNonZero ==
    (pc = "Exited" /\ fault = "environment")
        => (status # 0 /\ ~loaded /\ nread = 0 /\ invoked = {})

\* C12: a model-load fault ends the process before the loop is entered, and
\* the loop and its stages run only in a process whose CUDA check passed and
\* whose model is loaded.
C12_LoopOnlyAfterLoad ==
    [][/\ pc' \in LoopStates => (cuda' = "yes" /\ loaded')
       /\ invoked' # invoked => (pc \in LoopStates /\ cuda = "yes" /\ loaded)
       /\ (pc = "Loading" /\ fault' = "model_load")
          => (pc' \in {"Returned", "Exited"} /\ status' # 0 /\ nread' = 0)
       /\ (fault = "model_load" /\ depth' = depth) => pc' \notin LoopStates]_vars

C12_Witness ==
    /\ pc = "Exited"
    /\ fault = "model_load"
    /\ status = 1
    /\ cuda = "yes"
    /\ ~loaded

\* C19: the startup check relaunches at most once: never more than one
\* process waits in subprocess.run for a relaunched one.
C19_RelaunchAtMostOnce == depth <= 1

====
